---- MODULE Spec2Model ----
(***************************************************************************)
(* Model of gh-deploy-wf: the Temporal workflows GitHubDeploymentWorkflow  *)
(* and UpdateDeploymentWorkflow (package workflows), the activities they    *)
(* execute (package activities) and the GitHub deployments API they call.   *)
(*                                                                          *)
(* One step of the model is one workflow start, one activity attempt (one   *)
(* HTTP call to GitHub together with Temporal's retry decision and, on the  *)
(* final outcome, the workflow code that runs up to the next activity), one *)
(* signal delivery, or one workflow return.                                 *)
(***************************************************************************)
EXTENDS Naturals, Sequences, FiniteSets, TLC

\* ------------------------------------------------------------------ bounds
NumRuns      == 1   \* GitHubDeploymentWorkflow executions of Spec
NumUpdates   == 1   \* UpdateDeploymentWorkflow executions
MaxEvents    == 2   \* signals delivered in Spec
MaxLost      == 1   \* attempts of Spec whose remote effect happened but whose result was lost
NumRedeploys == 2   \* GitHubDeploymentWorkflow executions of SpecRedeploy
NumInvocations == 2 \* UpdateDeploymentWorkflow executions of SpecUpdates
NumActivities == 2  \* activities that execute at the same time in one worker
MaxClientCalls == 2 \* calls of CreateClientForOrg by one activity goroutine
MaxAscii     == 142 \* one-byte runes at the head of a description
MaxWide      == 2   \* two-byte runes at the tail of a description

\* -------------------------------------------------------- program constants
MaximumAttempts == 3     \* RetryPolicy.MaximumAttempts of both workflows
PerPage         == 10    \* ListOptions.PerPage of FindGitHubDeployment
MaxDescription  == 140   \* maxLen passed to truncateDescription

NonRetryableErrorTypes == {"ValidationError", "AuthenticationError"}

\* ------------------------------------------------------------------ inputs
Identities  == {"a", "b"}                      \* (owner, repo, commit, environment)
URLs        == {"", "url"}                     \* LogURL: absent or present
EventStates == {"in_progress", "success"}      \* DeploymentStatusUpdate.Status
UpdateStates == {"success", "deployed"}        \* DeploymentUpdateInput.State: any string

TerminalStates == {"success", "failure", "error", "inactive"}

\* How a call to GitHub fails: a 4xx validation error, an authentication error,
\* a 5xx server error, a rate-limit response, or a timeout after GitHub acted.
ErrorKinds == {"validation", "authentication", "server", "rate_limit", "timeout"}

VARIABLES
    wf,          \* [Runs -> local state of one GitHubDeploymentWorkflow execution]
    wfCalls,     \* [Runs -> the activities the run executed, with their final outcome]
    wfSent,      \* [Runs -> the statuses GitHub accepted from the run, in order]
    sigChan,     \* [Runs -> the signals delivered to the run and not received]
    upd,         \* [Updates -> local state of one UpdateDeploymentWorkflow execution]
    updCalls,    \* [Updates -> the activities the execution executed, with their final outcome]
    updStart,    \* [Updates -> the number of deployment records when the execution started]
    updSent,     \* [Updates -> the statuses GitHub accepted from the execution]
    deployments, \* GitHub: the deployment records in creation order; the id is the index
    budget,      \* what the environment may do: signals to deliver, results to lose,
                 \* whether calls to GitHub may fail, whether attempts are recorded
    wfAttempts,  \* [Runs -> the outcomes of the attempts of the run's latest activity]
    updAttempts, \* [Updates -> the outcomes of the attempts of the update's latest activity]
    description, \* input.Description of a status request, as runes
    statusRequest, \* the DeploymentStatusRequest built from it: Description, as bytes
    statusInput, \* the UpdateDeploymentStatusInput of that request, and the workflow it is from
    createInput, \* the CreateDeploymentInput of a create call
    deploymentRequest, \* the DeploymentRequest built from it
    installationCache, \* ClientFactory.installationCache: organization -> installation id
    clientCalls, \* [activity goroutines -> position in CreateClientForOrg]
    process      \* the worker process: "running" or "crashed"

factory == <<installationCache, clientCalls, process>>

pure == <<description, statusRequest, statusInput, createInput, deploymentRequest, factory>>

vars == <<wf, wfCalls, wfSent, sigChan, upd, updCalls, updStart, updSent, deployments, budget,
          wfAttempts, updAttempts, description, statusRequest, statusInput, createInput,
          deploymentRequest, installationCache, clientCalls, process>>

Runs    == DOMAIN wf
Updates == DOMAIN upd

\* ----------------------------------------------------------------- GitHub
\* Mutant: a record of the same identity is reused instead of creating one.
GatewayCreate_Dedup(deps, ident, run) ==
    IF \E d \in DOMAIN deps : deps[d].ident = ident
    THEN deps
    ELSE Append(deps, [ident |-> ident, by |-> run, state |-> "none"])

\* Repositories.CreateDeployment: a new record with a fresh id; no deduplication.
GatewayCreate(deps, ident, run) ==
    Append(deps, [ident |-> ident, by |-> run, state |-> "none"])

\* Mutant: a record that holds a terminal status keeps it.
GatewayPost_KeepTerminal(deps, id, state) ==
    IF deps[id].state \in {"success", "failure", "error", "inactive"}
    THEN deps
    ELSE [deps EXCEPT ![id].state = state]

\* Repositories.CreateDeploymentStatus: the record's current status is replaced.
GatewayPost(deps, id, state) ==
    [deps EXCEPT ![id].state = state]

\* Repositories.ListDeployments with SHA and Environment filters: the matching
\* ids, most recently created first, cut to one page.
RECURSIVE MatchingNewestFirst(_, _, _)
MatchingNewestFirst(deps, ident, n) ==
    IF n = 0 THEN <<>>
    ELSE IF deps[n].ident = ident
         THEN <<n>> \o MatchingNewestFirst(deps, ident, n - 1)
         ELSE MatchingNewestFirst(deps, ident, n - 1)

\* Mutant: the list request carries no SHA and Environment filter.
ListDeployments_Unfiltered(deps, ident) ==
    LET all == [i \in 1..Len(deps) |-> Len(deps) + 1 - i]
    IN  IF Len(all) > PerPage THEN SubSeq(all, 1, PerPage) ELSE all

ListDeployments(deps, ident) ==
    LET all == MatchingNewestFirst(deps, ident, Len(deps))
    IN  IF Len(all) > PerPage THEN SubSeq(all, 1, PerPage) ELSE all

\* ---------------------------------------------------------------- Temporal
\* Mutant: a rate-limit response (a 403) is classified as a validation error.
ActivityErrorType_RateLimitFatal(kind) ==
    IF kind = "rate_limit" THEN "ValidationError" ELSE "wrapError"

\* The error an activity returns is a wrapped fmt.Errorf error; Temporal sees
\* its Go type name.
ActivityErrorType(kind) == "wrapError"

\* Mutant: the attempt ceiling is ignored.
ShouldRetry_NoCeiling(attempt, errType) ==
    errType \notin NonRetryableErrorTypes

\* RetryPolicy: another attempt is scheduled after a failed one.
ShouldRetry(attempt, errType) ==
    attempt < MaximumAttempts /\ errType \notin NonRetryableErrorTypes

\* ------------------------------------------------ GitHubDeploymentWorkflow
InitialWf ==
    [pc |-> "idle", attempt |-> 0, input |-> [ident |-> "a", logURL |-> ""],
     DeploymentID |-> 0, FinalStatus |-> "", StatusUpdates |-> 0, ret |-> "none"]

\* Mutant: the initial status no longer depends on the log URL.
InitialStatus_AlwaysQueued(input) ==
    "queued"

\* 2. initialStatus := "queued"; if input.LogURL != "" { "in_progress" }
InitialStatus(input) ==
    IF input.logURL # "" THEN "in_progress" ELSE "queued"

\* Mutant: a failed creation is logged and the workflow continues.
CreateDone_Continue(w, failed, id) ==
    [w EXCEPT !.pc = "initial", !.attempt = 1, !.DeploymentID = id]

\* createDeploymentActivity.Get returned: err, or the created id.
CreateDone(w, failed, id) ==
    IF failed
    THEN [w EXCEPT !.pc = "failed", !.ret = "error"]
    ELSE [w EXCEPT !.pc = "initial", !.attempt = 1, !.DeploymentID = id]

\* Mutant: a failed initial update makes the workflow wait for an update signal
\* that no code path delivers.
InitialDone_Wait(w, failed) ==
    IF failed
    THEN [w EXCEPT !.pc = "waiting"]
    ELSE [w EXCEPT !.pc = "final", !.attempt = 1, !.StatusUpdates = @ + 1]

\* Mutant: a failed initial update clears the deployment id.
InitialDone_ResetID(w, failed) ==
    IF failed
    THEN [w EXCEPT !.pc = "final", !.attempt = 1, !.DeploymentID = 0]
    ELSE [w EXCEPT !.pc = "final", !.attempt = 1, !.StatusUpdates = @ + 1]

\* Mutant: an update that needed a retry is not counted.
InitialDone_RetriedNotCounted(w, failed) ==
    IF failed \/ w.attempt > 1
    THEN [w EXCEPT !.pc = "final", !.attempt = 1]
    ELSE [w EXCEPT !.pc = "final", !.attempt = 1, !.StatusUpdates = @ + 1]

\* Mutant: a failed initial update skips the success update.
InitialDone_SkipFinal(w, failed) ==
    IF failed
    THEN [w EXCEPT !.pc = "return", !.FinalStatus = "error"]
    ELSE [w EXCEPT !.pc = "final", !.attempt = 1, !.StatusUpdates = @ + 1]

\* updateStatusActivity.Get returned: log and continue, or count the update.
InitialDone(w, failed) ==
    IF failed
    THEN [w EXCEPT !.pc = "final", !.attempt = 1]
    ELSE [w EXCEPT !.pc = "final", !.attempt = 1, !.StatusUpdates = @ + 1]

\* Mutant: after a successful final update the workflow updates the status again.
FinalDone_Repeat(w, failed) ==
    IF failed
    THEN [w EXCEPT !.pc = "return", !.FinalStatus = "error"]
    ELSE [w EXCEPT !.pc = "final", !.attempt = 1, !.FinalStatus = "success",
                   !.StatusUpdates = @ + 1]

\* Mutant: a failed final update ends the workflow with the error.
FinalDone_ReturnError(w, failed) ==
    IF failed
    THEN [w EXCEPT !.pc = "failed", !.ret = "error"]
    ELSE [w EXCEPT !.pc = "return", !.FinalStatus = "success",
                   !.StatusUpdates = @ + 1]

\* Mutant: the final update is counted whether or not it succeeded.
FinalDone_CountsFailure(w, failed) ==
    IF failed
    THEN [w EXCEPT !.pc = "return", !.FinalStatus = "error",
                   !.StatusUpdates = @ + 1]
    ELSE [w EXCEPT !.pc = "return", !.FinalStatus = "success",
                   !.StatusUpdates = @ + 1]

\* Mutant: a failed final update leaves FinalStatus unset.
FinalDone_StatusUnset(w, failed) ==
    IF failed
    THEN [w EXCEPT !.pc = "return"]
    ELSE [w EXCEPT !.pc = "return", !.FinalStatus = "success",
                   !.StatusUpdates = @ + 1]

\* finalUpdateActivity.Get returned.
FinalDone(w, failed) ==
    IF failed
    THEN [w EXCEPT !.pc = "return", !.FinalStatus = "error"]
    ELSE [w EXCEPT !.pc = "return", !.FinalStatus = "success",
                   !.StatusUpdates = @ + 1]

\* The closing checks of the workflow and its return value.
ReturnResult(w) ==
    IF w.DeploymentID = 0
    THEN [w EXCEPT !.pc = "failed", !.ret = "error"]
    ELSE [w EXCEPT !.pc = "done", !.ret = "result",
                   !.FinalStatus = IF @ = "" THEN "unknown" ELSE @]

\* ------------------------------------------------ UpdateDeploymentWorkflow
InitialUpd ==
    [pc |-> "idle", attempt |-> 0, input |-> [ident |-> "a", state |-> "success"],
     deploymentID |-> 0, ret |-> "none",
     result |-> [DeploymentID |-> 0, UpdatedStatus |-> ""]]

\* The final outcome of one ExecuteActivity(...).Get, as the workflow sees it.
Call(activity, state, id, ok) ==
    [activity |-> activity, State |-> state, id |-> id, ok |-> ok]

InitWith(nRuns, nUpdates, events, losses, failing, trace) ==
    /\ wf = [r \in 1..nRuns |-> InitialWf]
    /\ wfCalls = [r \in 1..nRuns |-> <<>>]
    /\ wfSent = [r \in 1..nRuns |-> <<>>]
    /\ sigChan = [r \in 1..nRuns |-> <<>>]
    /\ upd = [u \in 1..nUpdates |-> InitialUpd]
    /\ updCalls = [u \in 1..nUpdates |-> <<>>]
    /\ updStart = [u \in 1..nUpdates |-> 0]
    /\ updSent = [u \in 1..nUpdates |-> <<>>]
    /\ deployments = <<>>
    /\ budget = [events |-> events, lost |-> losses, failing |-> failing, trace |-> trace]
    /\ wfAttempts = [r \in 1..nRuns |-> <<>>]
    /\ updAttempts = [u \in 1..nUpdates |-> <<>>]

\* map[string]string{} and a map with one more key.
EmptyMap == [k \in {} |-> ""]

\* No call of CreateClientForOrg is in progress and nothing is cached.
NoClientCalls ==
    /\ installationCache = EmptyMap
    /\ clientCalls = <<>>
    /\ process = "running"

\* No deployment request is being built.
NoDeploymentRequest ==
    /\ createInput = [Environment |-> "", IsTransient |-> FALSE, HarnessExecutionID |-> "",
                      HarnessPipelineID |-> "", Payload |-> EmptyMap]
    /\ deploymentRequest = [built |-> FALSE]

\* No status request is being built.
NoStatusRequest ==
    /\ description = <<>>
    /\ statusRequest = [built |-> FALSE, Description |-> <<>>]
    /\ statusInput = [from |-> "none", State |-> "", LogURL |-> "", EnvironmentURL |-> ""]
    /\ NoDeploymentRequest
    /\ NoClientCalls

Init == InitWith(NumRuns, NumUpdates, MaxEvents, MaxLost, TRUE, FALSE) /\ NoStatusRequest

\* The attempts of the activity in progress, with the outcome of one more.
Attempted(log, attempt, outcome) ==
    IF ~budget.trace THEN log
    ELSE IF attempt = 1 THEN <<outcome>> ELSE Append(log, outcome)

\* A failed attempt: either its result is lost after the remote effect happened
\* (a timeout, a dropped response, a worker crash), or the call failed outright.
MayFail(effect) ==
    IF effect THEN budget.lost > 0 ELSE budget.failing

\* client.ExecuteWorkflow(GitHubDeploymentWorkflow, input)
StartWorkflow(r) ==
    /\ wf[r].pc = "idle"
    /\ \E i \in Identities, l \in URLs :
         wf' = [wf EXCEPT ![r] = [@ EXCEPT !.pc = "create", !.attempt = 1,
                                           !.input = [ident |-> i, logURL |-> l]]]
    /\ UNCHANGED <<wfCalls, wfSent, sigChan, upd, updCalls, updStart, updSent, deployments, budget,
                   wfAttempts, updAttempts, pure>>

\* One attempt of the activity CreateGitHubDeployment.
CreateAttempt(r) ==
    /\ wf[r].pc = "create"
    /\ \/ \* the record is created and its id returned
          /\ deployments' = GatewayCreate(deployments, wf[r].input.ident, r)
          /\ wf' = [wf EXCEPT ![r] = CreateDone(@, FALSE, Len(deployments'))]
          /\ wfCalls' = [wfCalls EXCEPT
                           ![r] = Append(@, Call("create", "", Len(deployments'), TRUE))]
          /\ wfAttempts' = [wfAttempts EXCEPT ![r] = Attempted(@, wf[r].attempt, "ok")]
          /\ UNCHANGED budget
       \/ \* the call fails, or its result is lost after GitHub created the record
          \E kind \in ErrorKinds :
            LET effect == (kind = "timeout") IN
               /\ MayFail(effect)
               /\ deployments' = IF effect
                                 THEN GatewayCreate(deployments, wf[r].input.ident, r)
                                 ELSE deployments
               /\ budget' = IF effect THEN [budget EXCEPT !.lost = @ - 1] ELSE budget
               /\ wfAttempts' = [wfAttempts EXCEPT ![r] = Attempted(@, wf[r].attempt, kind)]
               /\ IF ShouldRetry(wf[r].attempt, ActivityErrorType(kind))
                  THEN /\ wf' = [wf EXCEPT ![r] = [@ EXCEPT !.attempt = @ + 1]]
                       /\ UNCHANGED wfCalls
                  ELSE /\ wf' = [wf EXCEPT ![r] = CreateDone(@, TRUE, 0)]
                       /\ wfCalls' = [wfCalls EXCEPT
                                        ![r] = Append(@, Call("create", "", 0, FALSE))]
    /\ UNCHANGED <<wfSent, sigChan, upd, updCalls, updStart, updSent, updAttempts, pure>>

\* updateInput / finalUpdateInput: the request of the status activity in progress.
InitialUpdateInput(w) ==
    [DeploymentID |-> w.DeploymentID, State |-> InitialStatus(w.input)]

FinalUpdateInput(w) ==
    [DeploymentID |-> w.DeploymentID, State |-> "success"]

\* One attempt of the activity UpdateGitHubDeploymentStatus executed by run r with
\* request req; the workflow code that runs on the activity's final outcome is
\* FinalDone for the final status and InitialDone for the initial one.
StatusAttempt(r, req, final) ==
    LET Done(w, failed) == IF final THEN FinalDone(w, failed) ELSE InitialDone(w, failed)
    IN
    \/ \* GitHub accepts the status and the attempt returns nil
       /\ req.DeploymentID \in DOMAIN deployments
       /\ deployments' = GatewayPost(deployments, req.DeploymentID, req.State)
       /\ wfSent' = [wfSent EXCEPT ![r] = Append(@, req)]
       /\ wfCalls' = [wfCalls EXCEPT
                        ![r] = Append(@, Call("status", req.State, req.DeploymentID, TRUE))]
       /\ wf' = [wf EXCEPT ![r] = Done(@, FALSE)]
       /\ wfAttempts' = [wfAttempts EXCEPT ![r] = Attempted(@, wf[r].attempt, "ok")]
       /\ UNCHANGED budget
    \/ \* the attempt fails, or its result is lost after GitHub accepted the status
       \E kind \in ErrorKinds :
         LET effect == (kind = "timeout") IN
            /\ MayFail(effect)
            /\ effect => req.DeploymentID \in DOMAIN deployments
            /\ deployments' = IF effect
                              THEN GatewayPost(deployments, req.DeploymentID, req.State)
                              ELSE deployments
            /\ wfSent' = IF effect THEN [wfSent EXCEPT ![r] = Append(@, req)] ELSE wfSent
            /\ budget' = IF effect THEN [budget EXCEPT !.lost = @ - 1] ELSE budget
            /\ wfAttempts' = [wfAttempts EXCEPT ![r] = Attempted(@, wf[r].attempt, kind)]
            /\ IF ShouldRetry(wf[r].attempt, ActivityErrorType(kind))
               THEN /\ wf' = [wf EXCEPT ![r] = [@ EXCEPT !.attempt = @ + 1]]
                    /\ UNCHANGED wfCalls
               ELSE /\ wf' = [wf EXCEPT ![r] = Done(@, TRUE)]
                    /\ wfCalls' = [wfCalls EXCEPT
                          ![r] = Append(@, Call("status", req.State, req.DeploymentID, FALSE))]

\* 2. Update to initial status (queued/in_progress)
InitialStatusAttempt(r) ==
    /\ wf[r].pc = "initial"
    /\ StatusAttempt(r, InitialUpdateInput(wf[r]), FALSE)
    /\ UNCHANGED <<sigChan, upd, updCalls, updStart, updSent, updAttempts, pure>>

\* 3. For MVP, immediately mark as success
FinalStatusAttempt(r) ==
    /\ wf[r].pc = "final"
    /\ StatusAttempt(r, FinalUpdateInput(wf[r]), TRUE)
    /\ UNCHANGED <<sigChan, upd, updCalls, updStart, updSent, updAttempts, pure>>

\* The workflow function returns.
Return(r) ==
    /\ wf[r].pc = "return"
    /\ wf' = [wf EXCEPT ![r] = ReturnResult(@)]
    /\ UNCHANGED <<wfCalls, wfSent, sigChan, upd, updCalls, updStart, updSent, deployments, budget,
                   wfAttempts, updAttempts, pure>>

Running(w) == w.pc \in {"create", "initial", "final", "return"}

\* A status update event is signalled to a running execution. The workflow
\* never reads its signal channel, so the event stays buffered.
SignalWorkflow(r) ==
    /\ Running(wf[r])
    /\ budget.events > 0
    /\ \E s \in EventStates : sigChan' = [sigChan EXCEPT ![r] = Append(@, s)]
    /\ budget' = [budget EXCEPT !.events = @ - 1]
    /\ UNCHANGED <<wf, wfCalls, wfSent, upd, updCalls, updStart, updSent, deployments,
                   wfAttempts, updAttempts, pure>>

\* ------------------------------------------------------------ activities
\* Mutant: the last entry of the page is taken instead of the first.
FindGitHubDeployment_Oldest(deps, ident) ==
    LET page == ListDeployments(deps, ident)
    IN  IF Len(page) = 0
        THEN [failed |-> TRUE, id |-> 0]
        ELSE [failed |-> FALSE, id |-> page[Len(page)]]

\* FindGitHubDeployment: "no deployment found" on an empty page, else the id of
\* the first entry of the page.
FindGitHubDeployment(deps, ident) ==
    LET page == ListDeployments(deps, ident)
    IN  IF Len(page) = 0
        THEN [failed |-> TRUE, id |-> 0]
        ELSE [failed |-> FALSE, id |-> page[1]]

\* Mutant: a failed lookup is logged and the workflow continues.
FindDone_Continue(v, failed, id) ==
    [v EXCEPT !.pc = "update", !.attempt = 1, !.deploymentID = id]

\* Mutant: a failed lookup falls back to the first deployment id.
FindDone_ReuseEarlier(v, failed, id) ==
    IF failed
    THEN [v EXCEPT !.pc = "update", !.attempt = 1, !.deploymentID = 1]
    ELSE [v EXCEPT !.pc = "update", !.attempt = 1, !.deploymentID = id]

\* findActivity.Get returned: err, or the id found.
FindDone(v, failed, id) ==
    IF failed
    THEN [v EXCEPT !.pc = "failed", !.ret = "error"]
    ELSE [v EXCEPT !.pc = "update", !.attempt = 1, !.deploymentID = id]

\* Mutant: the request carries a fixed state instead of the input's.
UpdateInput_FixedState(v) ==
    [DeploymentID |-> v.deploymentID, State |-> "success"]

\* 2. Update deployment status: the request of UpdateDeploymentWorkflow.
UpdateInput(v) ==
    [DeploymentID |-> v.deploymentID, State |-> v.input.state]

\* updateActivity.Get returned: err, or the result object is returned.
UpdateDone(v, failed) ==
    IF failed
    THEN [v EXCEPT !.pc = "failed", !.ret = "error"]
    ELSE [v EXCEPT !.pc = "done", !.ret = "result",
                   !.result = [DeploymentID |-> v.deploymentID,
                               UpdatedStatus |-> v.input.state]]

\* client.ExecuteWorkflow(UpdateDeploymentWorkflow, input)
StartUpdate(u) ==
    /\ upd[u].pc = "idle"
    /\ \E i \in Identities, s \in UpdateStates :
         upd' = [upd EXCEPT ![u] = [@ EXCEPT !.pc = "find", !.attempt = 1,
                                             !.input = [ident |-> i, state |-> s]]]
    /\ updStart' = [updStart EXCEPT ![u] = Len(deployments)]
    /\ UNCHANGED <<wf, wfCalls, wfSent, sigChan, updCalls, updSent, deployments, budget,
                   wfAttempts, updAttempts, pure>>

\* One attempt of the activity FindGitHubDeployment.
FindAttempt(u) ==
    /\ upd[u].pc = "find"
    /\ \E outcome \in {"ok"} \cup (ErrorKinds \ {"timeout"}) :
         /\ outcome # "ok" => MayFail(FALSE)
         /\ LET found  == FindGitHubDeployment(deployments, upd[u].input.ident)
                failed == outcome # "ok" \/ found.failed
                kind   == IF outcome # "ok" THEN outcome
                          ELSE IF found.failed THEN "not_found" ELSE "ok"
            IN  /\ updAttempts' = [updAttempts EXCEPT
                                     ![u] = Attempted(@, upd[u].attempt, kind)]
                /\ IF ~failed
                   THEN /\ upd' = [upd EXCEPT ![u] = FindDone(@, FALSE, found.id)]
                        /\ updCalls' = [updCalls EXCEPT
                                          ![u] = Append(@, Call("find", "", found.id, TRUE))]
                   ELSE IF ShouldRetry(upd[u].attempt, ActivityErrorType(kind))
                   THEN /\ upd' = [upd EXCEPT ![u] = [@ EXCEPT !.attempt = @ + 1]]
                        /\ UNCHANGED updCalls
                   ELSE /\ upd' = [upd EXCEPT ![u] = FindDone(@, TRUE, 0)]
                        /\ updCalls' = [updCalls EXCEPT
                                          ![u] = Append(@, Call("find", "", 0, FALSE))]
    /\ UNCHANGED <<wf, wfCalls, wfSent, sigChan, updStart, updSent, deployments, budget,
                   wfAttempts, pure>>

\* One attempt of the activity UpdateGitHubDeploymentStatus executed by update u.
UpdateAttempt(u) ==
    /\ upd[u].pc = "update"
    /\ LET req == UpdateInput(upd[u])
       IN  \/ \* GitHub accepts the status and the attempt returns nil
              /\ req.DeploymentID \in DOMAIN deployments
              /\ deployments' = GatewayPost(deployments, req.DeploymentID, req.State)
              /\ updSent' = [updSent EXCEPT ![u] = Append(@, req)]
              /\ upd' = [upd EXCEPT ![u] = UpdateDone(@, FALSE)]
              /\ updCalls' = [updCalls EXCEPT
                     ![u] = Append(@, Call("status", req.State, req.DeploymentID, TRUE))]
              /\ updAttempts' = [updAttempts EXCEPT ![u] = Attempted(@, upd[u].attempt, "ok")]
              /\ UNCHANGED budget
           \/ \* the attempt fails, or its result is lost after GitHub accepted the status
              \E kind \in ErrorKinds :
                LET effect == (kind = "timeout") IN
                   /\ MayFail(effect)
                   /\ effect => req.DeploymentID \in DOMAIN deployments
                   /\ deployments' = IF effect
                                     THEN GatewayPost(deployments, req.DeploymentID, req.State)
                                     ELSE deployments
                   /\ updSent' = IF effect THEN [updSent EXCEPT ![u] = Append(@, req)]
                                 ELSE updSent
                   /\ budget' = IF effect THEN [budget EXCEPT !.lost = @ - 1] ELSE budget
                   /\ updAttempts' = [updAttempts EXCEPT ![u] = Attempted(@, upd[u].attempt, kind)]
                   /\ IF ShouldRetry(upd[u].attempt, ActivityErrorType(kind))
                      THEN /\ upd' = [upd EXCEPT ![u] = [@ EXCEPT !.attempt = @ + 1]]
                           /\ UNCHANGED updCalls
                      ELSE /\ upd' = [upd EXCEPT ![u] = UpdateDone(@, TRUE)]
                           /\ updCalls' = [updCalls EXCEPT
                                ![u] = Append(@, Call("status", req.State, req.DeploymentID, FALSE))]
    /\ UNCHANGED <<wf, wfCalls, wfSent, sigChan, updStart, wfAttempts, pure>>

\* ------------------------------------------------------------ descriptions
\* A description is a Go string: the UTF-8 bytes of its runes. The runes used
\* are "a" (one byte) and U+00E9 (two bytes); "." is the rune of the ellipsis.
UTF8(rune) ==
    IF rune = "U+00E9" THEN <<"C3", "A9">>
    ELSE IF rune = "." THEN <<"2E">>
    ELSE <<"61">>

RECURSIVE EncodeRange(_, _, _)
EncodeRange(runes, lo, hi) ==
    IF lo > hi THEN <<>>
    ELSE IF lo = hi THEN UTF8(runes[lo])
    ELSE LET mid == (lo + hi) \div 2
         IN  EncodeRange(runes, lo, mid) \o EncodeRange(runes, mid + 1, hi)

Encode(runes) == EncodeRange(runes, 1, Len(runes))

\* The runes a reader of the string sees: the byte at position i starts a rune,
\* continues one, or belongs to no well-formed sequence and reads as U+FFFD.
RuneAt(bytes, i) ==
    IF bytes[i] = "61" THEN <<"a">>
    ELSE IF bytes[i] = "2E" THEN <<".">>
    ELSE IF bytes[i] = "C3"
         THEN IF i < Len(bytes) /\ bytes[i + 1] = "A9" THEN <<"U+00E9">> ELSE <<"U+FFFD">>
    ELSE IF i > 1 /\ bytes[i - 1] = "C3" THEN <<>> ELSE <<"U+FFFD">>

RECURSIVE DecodeRange(_, _, _)
DecodeRange(bytes, lo, hi) ==
    IF lo > hi THEN <<>>
    ELSE IF lo = hi THEN RuneAt(bytes, lo)
    ELSE LET mid == (lo + hi) \div 2
         IN  DecodeRange(bytes, lo, mid) \o DecodeRange(bytes, mid + 1, hi)

Decode(bytes) == DecodeRange(bytes, 1, Len(bytes))

Repeat(rune, n) == [i \in 1..n |-> rune]

Descriptions ==
    {Repeat("a", n) \o Repeat("U+00E9", k) : n \in 0..MaxAscii, k \in 0..MaxWide}

\* truncateDescription: len and the slice desc[:maxLen-3] count bytes.
truncateDescription(desc, maxLen) ==
    IF Len(desc) <= maxLen
    THEN desc
    ELSE SubSeq(desc, 1, maxLen - 3) \o Encode(<<".", ".", ".">>)

\* The variables of the workflow executions and of GitHub.
orchestration == <<wf, wfCalls, wfSent, sigChan, upd, updCalls, updStart, updSent,
                   deployments, budget, wfAttempts, updAttempts>>

\* What a workflow input carries into a status request.
StatusSources == [State : UpdateStates, LogURL : URLs, EnvironmentURL : URLs]

\* updateInput of GitHubDeploymentWorkflow: the initial status has no environment URL.
InitialStatusFields(input) ==
    [from |-> "initial", State |-> InitialStatus([logURL |-> input.LogURL]),
     LogURL |-> input.LogURL, EnvironmentURL |-> ""]

\* finalUpdateInput of GitHubDeploymentWorkflow.
FinalStatusFields(input) ==
    [from |-> "final", State |-> "success",
     LogURL |-> input.LogURL, EnvironmentURL |-> input.EnvironmentURL]

\* updateInput of UpdateDeploymentWorkflow.
UpdateStatusFields(input) ==
    [from |-> "update", State |-> input.State,
     LogURL |-> input.LogURL, EnvironmentURL |-> input.EnvironmentURL]

StatusInputs ==
    {InitialStatusFields(i) : i \in StatusSources}
        \cup {FinalStatusFields(i) : i \in StatusSources}
        \cup {UpdateStatusFields(i) : i \in StatusSources}

\* Mutant: the URLs are put into the request whether or not they are empty.
StatusRequest_URLsAlways(input, desc) ==
    [State |-> input.State,
     Description |-> truncateDescription(desc, MaxDescription),
     AutoInactive |-> TRUE,
     LogURL |-> input.LogURL,
     EnvironmentURL |-> input.EnvironmentURL]

\* statusRequest := &github.DeploymentStatusRequest{...}; "Add URLs if provided".
StatusRequest(input, desc) ==
    [State |-> input.State,
     Description |-> truncateDescription(desc, MaxDescription),
     AutoInactive |-> TRUE]
        @@ (IF input.LogURL # "" THEN [LogURL |-> input.LogURL] ELSE EmptyMap)
        @@ (IF input.EnvironmentURL # ""
            THEN [EnvironmentURL |-> input.EnvironmentURL] ELSE EmptyMap)

\* UpdateGitHubDeploymentStatus builds the status request of a transition.
BuildStatusRequest ==
    /\ ~statusRequest.built
    /\ statusRequest' =
         [built |-> TRUE] @@ StatusRequest(statusInput, Encode(description))
    /\ UNCHANGED <<orchestration, description, statusInput, createInput,
                   deploymentRequest, factory>>

\* ------------------------------------------------------ deployment request
Environments == {"production", "Production", "staging"}

PayloadKeys == {"branch", "triggered_by", "harness_execution_id"}

\* The caller's payloads: a value for each key of a set of keys.
Payloads == UNION {[keys -> {"caller"}] : keys \in SUBSET PayloadKeys}

\* What a DeploymentInput carries into the deployment request.
CreateSources ==
    [Environment : Environments, IsTransient : BOOLEAN,
     HarnessExecutionID : {"", "exec-1"}, HarnessPipelineID : {"", "pipe-1"},
     Payload : Payloads]

\* createInput of GitHubDeploymentWorkflow: the fields are passed on as they are.
CreateInputFields(input) ==
    [Environment |-> input.Environment, IsTransient |-> input.IsTransient,
     HarnessExecutionID |-> input.HarnessExecutionID,
     HarnessPipelineID |-> input.HarnessPipelineID,
     Payload |-> input.Payload]

\* time.Now().UTC().Format(time.RFC3339) at the time of the call.
Now == "now"

\* Mutant: the caller's payload is copied first, the system fields after it.
DeploymentPayload_SystemLast(input) ==
    [triggered_by |-> "temporal-workflow", created_at |-> Now]
        @@ (IF input.HarnessPipelineID # ""
            THEN [harness_pipeline_id |-> input.HarnessPipelineID] ELSE EmptyMap)
        @@ (IF input.HarnessExecutionID # ""
            THEN [harness_execution_id |-> input.HarnessExecutionID] ELSE EmptyMap)
        @@ input.Payload

\* "Prepare deployment payload": the system fields, then the Harness ids that
\* are not empty, then every key of input.Payload, each assignment replacing
\* the value the key had.
DeploymentPayload(input) ==
    input.Payload
        @@ (IF input.HarnessPipelineID # ""
            THEN [harness_pipeline_id |-> input.HarnessPipelineID] ELSE EmptyMap)
        @@ (IF input.HarnessExecutionID # ""
            THEN [harness_execution_id |-> input.HarnessExecutionID] ELSE EmptyMap)
        @@ [triggered_by |-> "temporal-workflow", created_at |-> Now]

\* Mutant: the environment name is compared without regard to case.
DeploymentRequest_FoldCase(input) ==
    [Task |-> "deploy",
     Environment |-> input.Environment,
     TransientEnvironment |-> input.IsTransient,
     ProductionEnvironment |-> input.Environment \in {"production", "Production"},
     AutoMerge |-> FALSE,
     Payload |-> DeploymentPayload(input)]

\* deploymentRequest := &github.DeploymentRequest{...}
DeploymentRequest(input) ==
    [Task |-> "deploy",
     Environment |-> input.Environment,
     TransientEnvironment |-> input.IsTransient,
     ProductionEnvironment |-> input.Environment = "production",
     AutoMerge |-> FALSE,
     Payload |-> DeploymentPayload(input)]

\* CreateGitHubDeployment builds the deployment request of a create call.
BuildDeploymentRequest ==
    /\ ~deploymentRequest.built
    /\ deploymentRequest' = [built |-> TRUE] @@ DeploymentRequest(createInput)
    /\ UNCHANGED <<orchestration, description, statusRequest, statusInput,
                   createInput, factory>>

\* ----------------------------------------------------------- ClientFactory
Orgs == {"acme", "initech", "globex"}

\* Apps.ListInstallations: the installations of the GitHub App.
Installations == <<[login |-> "acme", id |-> 7], [login |-> "initech", id |-> 9]>>

InstallationIDs == {Installations[i].id : i \in DOMAIN Installations}

\* for _, installation := range installations: the id of the first installation
\* whose account is org, or 0.
FindInstallation(installations, org) ==
    LET matches == {i \in DOMAIN installations : installations[i].login = org}
    IN  IF matches = {} THEN 0
        ELSE installations[CHOOSE i \in matches : \A j \in matches : i <= j].id

Goroutines == DOMAIN clientCalls

IdleCall ==
    [pc |-> "idle", org |-> "", n |-> 0, present |-> FALSE, listed |-> FALSE,
     raced |-> FALSE, id |-> 0, ret |-> "none"]

\* A map access by g is in progress.
Reading(g) == clientCalls[g].pc = "reading"
Writing(g) == clientCalls[g].pc = "writing"

\* The goroutines whose map access in progress conflicts with a read (a write)
\* that g begins: the map has no lock, so nothing keeps them apart.
ReadConflicts(g)  == {h \in Goroutines \ {g} : Writing(h)}
WriteConflicts(g) == {h \in Goroutines \ {g} : Reading(h) \/ Writing(h)}

\* g begins a map access that overlaps the accesses of the goroutines racing.
Begin(g, pc, racing) ==
    [h \in Goroutines |->
        IF h = g THEN [clientCalls[g] EXCEPT !.pc = pc, !.raced = racing # {}]
        ELSE IF h \in racing THEN [clientCalls[h] EXCEPT !.raced = TRUE]
        ELSE clientCalls[h]]

\* What a map in an unsynchronized concurrent write may hold afterwards.
CorruptCaches == UNION {[orgs -> InstallationIDs \cup {0}] : orgs \in SUBSET Orgs}

\* installationID, exists := f.installationCache[org]. A read that raced with a
\* write is a data race: it may return anything.
ReadResults(g) ==
    LET org == clientCalls[g].org
        exists == org \in DOMAIN installationCache
    IN  IF clientCalls[g].raced
        THEN [exists : BOOLEAN, id : InstallationIDs \cup {0}]
        ELSE {[exists |-> exists, id |-> IF exists THEN installationCache[org] ELSE 0]}

\* f.installationCache[org] = targetInstallationID. A write that raced with
\* another access is a data race: the map may hold anything afterwards.
WriteResults(g) ==
    LET org == clientCalls[g].org
        stored == [o \in DOMAIN installationCache \cup {org} |->
                      IF o = org THEN clientCalls[g].id ELSE installationCache[o]]
    IN  IF clientCalls[g].raced THEN CorruptCaches \cup {stored} ELSE {stored}

\* An activity calls clientFactory.CreateClientForOrg(ctx, input.GithubOwner).
CallCreateClient(g) ==
    /\ process = "running"
    /\ clientCalls[g].pc \in {"idle", "returned"}
    /\ clientCalls[g].n < MaxClientCalls
    /\ \E org \in Orgs :
         clientCalls' = [clientCalls EXCEPT ![g] =
             [pc |-> "lookup", org |-> org, n |-> @.n + 1,
              present |-> org \in DOMAIN installationCache,
              listed |-> FALSE, raced |-> FALSE, id |-> 0, ret |-> "none"]]
    /\ UNCHANGED <<orchestration, description, statusRequest, statusInput, createInput,
                   deploymentRequest, installationCache, process>>

\* The read of f.installationCache[org] begins.
BeginRead(g) ==
    /\ process = "running"
    /\ clientCalls[g].pc = "lookup"
    /\ clientCalls' = Begin(g, "reading", ReadConflicts(g))
    /\ UNCHANGED <<orchestration, description, statusRequest, statusInput, createInput,
                   deploymentRequest, installationCache, process>>

\* The read ends: a cached id makes the installation client; a miss goes on to
\* list the installations. The runtime may end the process on a race it detects.
EndRead(g) ==
    /\ process = "running"
    /\ Reading(g)
    /\ \/ /\ \E res \in ReadResults(g) :
                clientCalls' = [clientCalls EXCEPT ![g] =
                    IF res.exists
                    THEN [@ EXCEPT !.pc = "returned", !.raced = FALSE,
                                   !.id = res.id, !.ret = "client"]
                    ELSE [@ EXCEPT !.pc = "list", !.raced = FALSE]]
          /\ UNCHANGED process
       \/ /\ clientCalls[g].raced
          /\ process' = "crashed"
          /\ UNCHANGED clientCalls
    /\ UNCHANGED <<orchestration, description, statusRequest, statusInput, createInput,
                   deploymentRequest, installationCache>>

\* appClient.Apps.ListInstallations and the search for the organization: an
\* error of the call or no installation returns an error, an installation found
\* is about to be cached.
ListInstallations(g) ==
    /\ process = "running"
    /\ clientCalls[g].pc = "list"
    /\ \E failed \in BOOLEAN :
         LET target == FindInstallation(Installations, clientCalls[g].org)
         IN  clientCalls' = [clientCalls EXCEPT ![g] =
                 IF failed
                 THEN [@ EXCEPT !.pc = "returned", !.ret = "error"]
                 ELSE IF target = 0
                 THEN [@ EXCEPT !.pc = "returned", !.listed = TRUE, !.ret = "error"]
                 ELSE [@ EXCEPT !.pc = "store", !.listed = TRUE, !.id = target]]
    /\ UNCHANGED <<orchestration, description, statusRequest, statusInput, createInput,
                   deploymentRequest, installationCache, process>>

\* The write f.installationCache[org] = targetInstallationID begins.
BeginWrite(g) ==
    /\ process = "running"
    /\ clientCalls[g].pc = "store"
    /\ clientCalls' = Begin(g, "writing", WriteConflicts(g))
    /\ UNCHANGED <<orchestration, description, statusRequest, statusInput, createInput,
                   deploymentRequest, installationCache, process>>

\* The write ends and the installation client is returned.
EndWrite(g) ==
    /\ process = "running"
    /\ Writing(g)
    /\ \/ /\ \E cache \in WriteResults(g) : installationCache' = cache
          /\ clientCalls' = [clientCalls EXCEPT ![g] =
                 [@ EXCEPT !.pc = "returned", !.raced = FALSE, !.ret = "client"]]
          /\ UNCHANGED process
       \/ /\ clientCalls[g].raced
          /\ process' = "crashed"
          /\ UNCHANGED <<clientCalls, installationCache>>
    /\ UNCHANGED <<orchestration, description, statusRequest, statusInput, createInput,
                   deploymentRequest>>

\* ---------------------------------------------------------- specifications
NextRedeploy ==
    \/ \E r \in Runs : StartWorkflow(r)
    \/ \E r \in Runs : CreateAttempt(r)
    \/ \E r \in Runs : InitialStatusAttempt(r)
    \/ \E r \in Runs : FinalStatusAttempt(r)
    \/ \E r \in Runs : Return(r)
    \/ \E u \in Updates : StartUpdate(u)
    \/ \E u \in Updates : FindAttempt(u)
    \/ \E u \in Updates : UpdateAttempt(u)

Next ==
    \/ NextRedeploy
    \/ \E r \in Runs : SignalWorkflow(r)

\* One lifecycle run and one update, with signals and lost results.
Spec == Init /\ [][Next]_vars

\* Redeploys: several lifecycle runs and an update against a GitHub whose calls
\* all succeed; no signals.
InitRedeploy == InitWith(NumRedeploys, NumUpdates, 0, 0, FALSE, FALSE) /\ NoStatusRequest

SpecRedeploy == InitRedeploy /\ [][NextRedeploy]_vars

\* Retries: one lifecycle run and one update against a GitHub whose calls fail in
\* every way but a lost result; the outcome of every attempt is recorded.
InitRetry == InitWith(NumRuns, NumUpdates, 0, 0, TRUE, TRUE) /\ NoStatusRequest

SpecRetry == InitRetry /\ [][NextRedeploy]_vars

\* Repeated updates: several UpdateDeploymentWorkflow executions beside lifecycle
\* runs, against a GitHub whose calls succeed.
InitUpdates ==
    InitWith(NumRedeploys, NumInvocations, 0, 0, FALSE, FALSE) /\ NoStatusRequest

SpecUpdates == InitUpdates /\ [][NextRedeploy]_vars

\* Status requests built from descriptions around the length limit.
InitTruncate ==
    /\ InitWith(0, 0, 0, 0, FALSE, FALSE)
    /\ description \in Descriptions
    /\ statusRequest = [built |-> FALSE, Description |-> <<>>]
    /\ statusInput \in StatusInputs
    /\ NoDeploymentRequest
    /\ NoClientCalls

NextTruncate == BuildStatusRequest

SpecTruncate == InitTruncate /\ [][NextTruncate]_vars

\* Deployment requests built from every create input.
InitCreateRequest ==
    /\ InitWith(0, 0, 0, 0, FALSE, FALSE)
    /\ description = <<>>
    /\ statusRequest = [built |-> FALSE, Description |-> <<>>]
    /\ statusInput = [from |-> "none", State |-> "", LogURL |-> "", EnvironmentURL |-> ""]
    /\ createInput \in {CreateInputFields(i) : i \in CreateSources}
    /\ deploymentRequest = [built |-> FALSE]
    /\ NoClientCalls

NextCreateRequest == BuildDeploymentRequest

SpecCreateRequest == InitCreateRequest /\ [][NextCreateRequest]_vars

\* The client factory of one worker, shared by the activities it executes.
InitFactory ==
    /\ InitWith(0, 0, 0, 0, FALSE, FALSE)
    /\ description = <<>>
    /\ statusRequest = [built |-> FALSE, Description |-> <<>>]
    /\ statusInput = [from |-> "none", State |-> "", LogURL |-> "", EnvironmentURL |-> ""]
    /\ NoDeploymentRequest
    /\ installationCache = EmptyMap
    /\ clientCalls = [g \in 1..NumActivities |-> IdleCall]
    /\ process = "running"

NextFactory ==
    \/ \E g \in Goroutines : CallCreateClient(g)
    \/ \E g \in Goroutines : BeginRead(g)
    \/ \E g \in Goroutines : EndRead(g)
    \/ \E g \in Goroutines : ListInstallations(g)
    \/ \E g \in Goroutines : BeginWrite(g)
    \/ \E g \in Goroutines : EndWrite(g)

SpecFactory == InitFactory /\ [][NextFactory]_vars

\* Temporal schedules every activity attempt and every workflow task of an open
\* execution: a run that can take a step eventually takes one.
FairSpec ==
    /\ Spec
    /\ \A r \in 1..NumRuns :
         /\ WF_vars(CreateAttempt(r))
         /\ WF_vars(InitialStatusAttempt(r))
         /\ WF_vars(FinalStatusAttempt(r))
         /\ WF_vars(Return(r))

\* =================================================================== claims
\* What a run or an update has done, read from its call history.
StatusCalls(calls) == SelectSeq(calls, LAMBDA c : c.activity = "status")

Applied(calls) == SelectSeq(calls, LAMBDA c : c.activity = "status" /\ c.ok)

AppliedTerminal(r) ==
    \E i \in DOMAIN wfCalls[r] :
        /\ wfCalls[r][i].activity = "status"
        /\ wfCalls[r][i].ok
        /\ wfCalls[r][i].State \in TerminalStates

CreateSucceeded(r) ==
    \E i \in DOMAIN wfCalls[r] : wfCalls[r][i].activity = "create" /\ wfCalls[r][i].ok

CreateFailed(r) ==
    \E i \in DOMAIN wfCalls[r] : wfCalls[r][i].activity = "create" /\ ~wfCalls[r][i].ok

CreatedBy(r) == {d \in DOMAIN deployments : deployments[d].by = r}

C2_TimeoutFallback ==
    \A r \in Runs :
        (wf[r].pc = "done" /\ sigChan[r] = <<>>) =>
            /\ Len(SelectSeq(Applied(wfCalls[r]), LAMBDA c : c.State = "inactive")) = 1
            /\ wf[r].FinalStatus = "inactive"

C4_CreateExactlyOnce ==
    \A r \in Runs : Cardinality(CreatedBy(r)) <= 1

\* C5 Creation failure is fatal: when the create call has finally failed the
\* workflow has returned an error and no summary, it executed no status call
\* and GitHub accepted no status from it.
C5_CreationFailureFatal ==
    \A r \in Runs :
        CreateFailed(r) =>
            /\ wf[r].pc = "failed"
            /\ wf[r].ret = "error"
            /\ StatusCalls(wfCalls[r]) = <<>>
            /\ wfSent[r] = <<>>

\* C5 witness: the create call failed on all its attempts.
C5_Witness ==
    \E r \in Runs : CreateFailed(r) /\ wf[r].ret = "error"

\* C6 After a successful creation the run never ends with an error: it returns
\* a summary that carries the created identifier, whichever status calls fail.
C6_NoErrorAfterCreate ==
    \A r \in Runs :
        CreateSucceeded(r) =>
            /\ wf[r].ret # "error"
            /\ wf[r].pc # "failed"
            /\ wf[r].pc = "done" =>
                 /\ wf[r].ret = "result"
                 /\ \E i \in DOMAIN wfCalls[r] :
                      /\ wfCalls[r][i].activity = "create"
                      /\ wfCalls[r][i].id = wf[r].DeploymentID

\* C6 witness: a summary was returned after the initial and the final status
\* call both failed.
C6_Witness ==
    \E r \in Runs :
        /\ wf[r].ret = "result"
        /\ Len(StatusCalls(wfCalls[r])) = 2
        /\ \A i \in 1..2 : ~StatusCalls(wfCalls[r])[i].ok

FindCalls(calls) == SelectSeq(calls, LAMBDA c : c.activity = "find")

C9_UpdateSequence ==
    \A u \in Updates :
        LET finds    == FindCalls(updCalls[u])
            statuses == StatusCalls(updCalls[u])
            lookedUp == finds # <<>> /\ finds[1].ok
            request  == [DeploymentID |-> finds[1].id, State |-> upd[u].input.state]
        IN  /\ Len(finds) <= 1
            /\ Len(statuses) <= 1
            /\ updCalls[u] # <<>> => updCalls[u][1].activity = "find"
            /\ (statuses # <<>> \/ updSent[u] # <<>> \/ upd[u].pc = "update") => lookedUp
            /\ \A i \in DOMAIN updSent[u] : updSent[u][i] = request
            /\ \A i \in DOMAIN statuses :
                 /\ statuses[i].id = request.DeploymentID
                 /\ statuses[i].State = request.State
            /\ upd[u].ret = "result" <=> (lookedUp /\ statuses # <<>> /\ statuses[1].ok)
            /\ upd[u].ret = "result" =>
                 upd[u].result = [DeploymentID |-> request.DeploymentID,
                                  UpdatedStatus |-> request.State]

\* C9 witness: an update with a state outside the GitHub vocabulary returned its
\* summary after a retried status call.
C9_Witness ==
    \E u \in Updates :
        /\ upd[u].ret = "result"
        /\ upd[u].input.state = "deployed"
        /\ upd[u].attempt > 1
        /\ deployments[upd[u].result.DeploymentID].state = "deployed"

\* C10 Lookup resolution picks the most recent: no status of an update lands on a
\* record for which a more recently created record of the same identity existed
\* when the update started, and it lands on a record of the update's identity.
C10_MostRecent ==
    \A u \in Updates :
        \A i \in DOMAIN updSent[u] :
            LET target == updSent[u][i].DeploymentID
            IN  /\ deployments[target].ident = upd[u].input.ident
                /\ ~\E d \in 1..updStart[u] :
                      /\ d > target
                      /\ deployments[d].ident = upd[u].input.ident

\* C10 witness: two records of one identity existed when the update started, and
\* the update's status was accepted by the second.
C10_Witness ==
    \E u \in Updates :
        /\ updStart[u] >= 2
        /\ deployments[1].ident = upd[u].input.ident
        /\ deployments[2].ident = upd[u].input.ident
        /\ updSent[u] # <<>>
        /\ updSent[u][1].DeploymentID = 2

\* C11 Description truncation, as claimed: a description of more than 140
\* characters is transmitted as its first 137 characters followed by "...", 140
\* characters in all, and a description of at most 140 characters is transmitted
\* unchanged.
C11_Truncation ==
    statusRequest.built =>
        LET sent == Decode(statusRequest.Description)
        IN  IF Len(description) > MaxDescription
            THEN /\ Len(sent) = MaxDescription
                 /\ sent = SubSeq(description, 1, MaxDescription - 3) \o <<".", ".", ".">>
            ELSE sent = description

\* The attempts recorded for a run are those of a status call that has returned.
StatusReturned(r) ==
    /\ wfAttempts[r] # <<>>
    /\ \/ wf[r].pc = "final" /\ wf[r].attempt = 1
       \/ wf[r].pc \in {"return", "done"}

\* C12 Retry transparency: when a status call of a run has returned after an
\* attempt that succeeded, whatever number of attempts failed before it without
\* reaching GitHub, the run has counted one update per successful status call,
\* GitHub has accepted one status per successful status call, the call is
\* recorded once as successful, and the run has recorded no error.
C12_RetryTransparency ==
    \A r \in Runs :
        (/\ StatusReturned(r)
         /\ wfAttempts[r][Len(wfAttempts[r])] = "ok") =>
            LET log     == wfAttempts[r]
                calls   == StatusCalls(wfCalls[r])
                applied == SelectSeq(calls, LAMBDA c : c.ok)
            IN  /\ calls[Len(calls)].ok
                /\ wf[r].StatusUpdates = Len(applied)
                /\ Len(wfSent[r]) = Len(applied)
                /\ wfSent[r][Len(wfSent[r])].State = calls[Len(calls)].State
                /\ wf[r].ret # "error"
                /\ wf[r].pc # "failed"
                /\ wf[r].FinalStatus # "error"

\* C12 witness: the initial status call failed twice with a server error and
\* succeeded on the third attempt; one update is counted and GitHub holds one status.
C12_Witness ==
    \E r \in Runs :
        /\ wf[r].pc = "final" /\ wf[r].attempt = 1
        /\ wfAttempts[r] = <<"server", "server", "ok">>
        /\ wf[r].StatusUpdates = 1
        /\ Len(wfSent[r]) = 1

\* The attempts recorded are those of an activity whose Get has returned.
Returned(w, log) ==
    /\ log # <<>>
    /\ w.attempt = 1 \/ w.pc \in {"failed", "return", "done"}

\* What the workflow may observe of one activity: while attempts are in
\* progress nothing (expected calls are recorded), and once Get has returned one
\* recorded outcome, success exactly when the last attempt succeeded.
BoundedCall(w, log, calls, expected) ==
    /\ Len(log) <= MaximumAttempts
    /\ w.attempt <= MaximumAttempts
    /\ \A i \in 1..(Len(log) - 1) : log[i] # "ok"
    /\ IF Returned(w, log)
       THEN /\ calls # <<>>
            /\ calls[Len(calls)].ok <=> log[Len(log)] = "ok"
            /\ (Len(log) = MaximumAttempts /\ log[Len(log)] # "ok") => ~calls[Len(calls)].ok
       ELSE /\ Len(calls) = expected
            /\ \A i \in DOMAIN log : log[i] # "ok"

NeverRetried(w, log, calls) ==
    \A i \in DOMAIN log :
        log[i] \in {"validation", "authentication"} =>
            /\ Len(log) = 1
            /\ Returned(w, log)
            /\ calls # <<>> /\ ~calls[Len(calls)].ok

\* C14 Validation and authentication failures are never retried, as claimed: a
\* create, status or lookup activity that fails with such an error has exactly
\* one attempt and its failure is the activity's final outcome.
C14_NoRetryOnValidation ==
    /\ \A r \in Runs : NeverRetried(wf[r], wfAttempts[r], wfCalls[r])
    /\ \A u \in Updates : NeverRetried(upd[u], updAttempts[u], updCalls[u])

\* A failure with a server error or a rate-limit response ends its activity
\* only as the last of MaximumAttempts attempts, and there it does end it.
RetriedToCeiling(w, log, calls) ==
    (log # <<>> /\ log[Len(log)] \in {"server", "rate_limit"}) =>
        /\ Returned(w, log) => Len(log) = MaximumAttempts
        /\ Len(log) = MaximumAttempts =>
             /\ Returned(w, log)
             /\ calls # <<>> /\ ~calls[Len(calls)].ok

C16_NoDeduplication ==
    \A r1, r2 \in Runs :
        (/\ r1 # r2
         /\ wf[r1].input = wf[r2].input
         /\ CreateSucceeded(r1)
         /\ CreateSucceeded(r2)) =>
            /\ wf[r1].DeploymentID # wf[r2].DeploymentID
            /\ deployments[wf[r1].DeploymentID].by = r1
            /\ deployments[wf[r2].DeploymentID].by = r2
            /\ \A i \in DOMAIN wfSent[r1] : wfSent[r1][i].DeploymentID # wf[r2].DeploymentID

\* C16 witness: two finished runs with the same input and two records of that
\* identity.
C16_Witness ==
    \E r1, r2 \in Runs :
        /\ r1 # r2
        /\ wf[r1].input = wf[r2].input
        /\ wf[r1].pc = "done" /\ wf[r2].pc = "done"
        /\ Len(deployments) = 2
        /\ deployments[1].ident = deployments[2].ident

\* C17 Identifier stability: in every step, a run that holds a deployment id
\* keeps it; after the step the id it holds is the one its create call
\* returned, every status GitHub accepted from it and every status call it
\* executed targets that id, and a returned result carries it.
C17_IdentifierStability ==
    [][\A r \in Runs :
         /\ wf[r].DeploymentID # 0 => wf'[r].DeploymentID = wf[r].DeploymentID
         /\ CreateSucceeded(r) =>
              /\ wf'[r].DeploymentID = wfCalls[r][1].id
              /\ wf'[r].DeploymentID # 0
         /\ \A i \in DOMAIN wfSent'[r] : wfSent'[r][i].DeploymentID = wf'[r].DeploymentID
         /\ \A i \in DOMAIN wfCalls'[r] :
              wfCalls'[r][i].activity = "status" => wfCalls'[r][i].id = wf'[r].DeploymentID
         /\ wf'[r].ret = "result" =>
              /\ wfCalls'[r][1] = Call("create", "", wf'[r].DeploymentID, TRUE)]_vars

\* C17 witness: a run returned a result with the id its create call returned
\* after both of its statuses were accepted by that record.
C17_Witness ==
    \E r \in Runs :
        /\ wf[r].ret = "result"
        /\ wf[r].DeploymentID = wfCalls[r][1].id
        /\ Len(wfSent[r]) >= 2
        /\ \A i \in DOMAIN wfSent[r] : wfSent[r][i].DeploymentID = wf[r].DeploymentID
        /\ Cardinality(CreatedBy(r)) = 2

\* C18 The final state of a summary tells the outcomes apart, as claimed: a
\* finished run reports success exactly when GitHub accepted a success status
\* from it, and never reports success when its terminal status call failed.
C18_FinalStatusTruthful ==
    \A r \in Runs :
        wf[r].pc = "done" =>
            /\ wf[r].FinalStatus = "success" <=>
                 \E i \in DOMAIN wfSent[r] : wfSent[r][i].State = "success"
            /\ (\E i \in DOMAIN wfCalls[r] :
                  /\ wfCalls[r][i].activity = "status"
                  /\ wfCalls[r][i].State \in TerminalStates
                  /\ ~wfCalls[r][i].ok) => wf[r].FinalStatus # "success"

\* mapHarnessStatusToGitHub of the design: the fixed table, "pending" otherwise.
mapHarnessStatusToGitHub(harnessStatus) ==
    CASE harnessStatus = "queued"      -> "queued"
      [] harnessStatus = "running"     -> "in_progress"
      [] harnessStatus = "in_progress" -> "in_progress"
      [] harnessStatus = "success"     -> "success"
      [] harnessStatus = "succeeded"   -> "success"
      [] harnessStatus = "failed"      -> "failure"
      [] harnessStatus = "failure"     -> "failure"
      [] harnessStatus = "error"       -> "error"
      [] harnessStatus = "aborted"     -> "failure"
      [] harnessStatus = "cancelled"   -> "failure"
      [] harnessStatus = "inactive"    -> "inactive"
      [] OTHER                         -> "pending"

\* C19 State vocabulary mapping, as claimed: the state of every status an
\* update executes or GitHub accepts from it is the inbound state translated
\* through the table, an unrecognized inbound state being sent as pending.
C19_StateMapping ==
    \A u \in Updates :
        /\ \A i \in DOMAIN updSent[u] :
             updSent[u][i].State = mapHarnessStatusToGitHub(upd[u].input.state)
        /\ \A i \in DOMAIN updCalls[u] :
             updCalls[u][i].activity = "status" =>
                 updCalls[u][i].State = mapHarnessStatusToGitHub(upd[u].input.state)

\* The events of a run up to the first whose mapped state is terminal.
RECURSIVE UpToTerminal(_)
UpToTerminal(events) ==
    IF events = <<>> THEN <<>>
    ELSE IF mapHarnessStatusToGitHub(Head(events)) \in TerminalStates
         THEN <<Head(events)>>
         ELSE <<Head(events)>> \o UpToTerminal(Tail(events))

\* C20 Lifecycle step rule, as claimed: a finished run to which update events
\* were delivered has executed, after its initial status, one status call per
\* event up to the first event whose mapped state is terminal, each with the
\* mapped state of its event, and none after that event.
C20_StepRule ==
    \A r \in Runs :
        (wf[r].pc = "done" /\ sigChan[r] # <<>>) =>
            LET calls  == StatusCalls(wfCalls[r])
                events == UpToTerminal(sigChan[r])
                last   == events[Len(events)]
            IN  /\ Len(calls) >= 1 + Len(events)
                /\ \A k \in DOMAIN events :
                     calls[1 + k].State = mapHarnessStatusToGitHub(events[k])
                /\ mapHarnessStatusToGitHub(last) \in TerminalStates =>
                     Len(calls) = 1 + Len(events)

C22_OneDeadline ==
    \A r \in Runs :
        LET calls == StatusCalls(wfCalls[r])
        IN  ( /\ wf[r].pc = "done"
              /\ CreateSucceeded(r)
              /\ sigChan[r] # <<>>
              /\ \A k \in DOMAIN sigChan[r] :
                     mapHarnessStatusToGitHub(sigChan[r][k]) \notin TerminalStates )
            => /\ calls # <<>>
               /\ calls[Len(calls)].State = "inactive"
               /\ Len(calls) <= Len(sigChan[r]) + 2

\* C23 Applied-transition count: in every step of a lifecycle run StatusUpdates
\* equals the number of its status calls that finally succeeded, a status call
\* that finally fails leaves the count as it was, and the count never decreases.
C23_AppliedCount ==
    [][\A r \in Runs :
          /\ wf[r].StatusUpdates = Len(Applied(wfCalls[r]))
          /\ wf'[r].StatusUpdates = Len(Applied(wfCalls'[r]))
          /\ wf'[r].StatusUpdates >= wf[r].StatusUpdates
          /\ ( /\ Len(wfCalls'[r]) = Len(wfCalls[r]) + 1
               /\ wfCalls'[r][Len(wfCalls'[r])].activity = "status"
               /\ ~wfCalls'[r][Len(wfCalls'[r])].ok )
             => wf'[r].StatusUpdates = wf[r].StatusUpdates]_vars

\* A finished run whose initial status finally failed and whose final status
\* succeeded reports one status update.
C23_Witness ==
    \E r \in Runs :
        LET calls == StatusCalls(wfCalls[r])
        IN  /\ wf[r].pc = "done"
            /\ Len(calls) = 2
            /\ ~calls[1].ok
            /\ calls[2].ok
            /\ wf[r].StatusUpdates = 1

C25_FinalStatusTerminal ==
    \A r \in Runs :
        wf[r].pc = "done" => wf[r].FinalStatus \in TerminalStates

\* A run completed after its final status call finally failed; its result
\* reports error.
C25_Witness ==
    \E r \in Runs :
        LET calls == StatusCalls(wfCalls[r])
        IN  /\ wf[r].pc = "done"
            /\ wf[r].ret = "result"
            /\ calls # <<>>
            /\ ~calls[Len(calls)].ok
            /\ wf[r].FinalStatus = "error"

\* The deployment states of the claimed vocabulary.
Vocabulary ==
    {"queued", "in_progress", "success", "failure", "error", "inactive", "pending"}

\* C26 Fixed vocabulary, as claimed: every state that a status call of a
\* lifecycle run or of an UpdateDeploymentWorkflow sends, and every state GitHub
\* received from them, is one of queued, in_progress, success, failure, error,
\* inactive, pending.
C26_FixedVocabulary ==
    /\ \A r \in Runs :
          /\ \A i \in DOMAIN wfCalls[r] :
                wfCalls[r][i].activity = "status"
                    => wfCalls[r][i].State \in Vocabulary
          /\ \A i \in DOMAIN wfSent[r] : wfSent[r][i].State \in Vocabulary
    /\ \A u \in Updates :
          /\ \A i \in DOMAIN updCalls[u] :
                updCalls[u][i].activity = "status"
                    => updCalls[u][i].State \in Vocabulary
          /\ \A i \in DOMAIN updSent[u] : updSent[u][i].State \in Vocabulary

C28_NoCoordination ==
    [][\A u \in Updates :
          Len(updSent'[u]) = Len(updSent[u]) + 1
              => LET req == updSent'[u][Len(updSent'[u])]
                 IN  /\ req.State = upd[u].input.state
                     /\ deployments'[req.DeploymentID].state = req.State]_vars

\* A finished run applied success to its record and reports success; the update
\* then put another status on the same record, which the record now holds.
C28_Witness ==
    \E r \in Runs, u \in Updates :
        /\ wf[r].pc = "done"
        /\ wf[r].FinalStatus = "success"
        /\ AppliedTerminal(r)
        /\ updSent[u] # <<>>
        /\ updSent[u][Len(updSent[u])].DeploymentID = wf[r].DeploymentID
        /\ deployments[wf[r].DeploymentID].by = r
        /\ deployments[wf[r].DeploymentID].state = "deployed"
        /\ deployments[wf[r].DeploymentID].state # wf[r].FinalStatus

\* The most recently created record of an identity among the records deps.
NewestOf(deps, ident, id) ==
    /\ id \in DOMAIN deps
    /\ deps[id].ident = ident
    /\ \A d \in DOMAIN deps : d > id => deps[d].ident # ident

\* C29 as claimed: in every step in which GitHub accepts the status of an
\* UpdateDeploymentWorkflow, the record that receives it is the most recently
\* created record of the update's identity at that moment.
C29_NewestAtTransition ==
    [][\A u \in Updates :
          Len(updSent'[u]) = Len(updSent[u]) + 1
              => NewestOf(deployments, upd[u].input.ident,
                          updSent'[u][Len(updSent'[u])].DeploymentID)]_vars

\* C29 amended: the record that receives the status of an
\* UpdateDeploymentWorkflow is the record its lookup returned, and that record
\* was the most recently created record of the update's identity at the moment
\* of the lookup; a record created after the lookup is not considered.
C29_NewestAtLookup ==
    [][\A u \in Updates :
          /\ (upd[u].pc = "find" /\ upd'[u].pc = "update")
                => NewestOf(deployments, upd[u].input.ident, upd'[u].deploymentID)
          /\ Len(updSent'[u]) = Len(updSent[u]) + 1
                => /\ updSent'[u][Len(updSent'[u])].DeploymentID = upd[u].deploymentID
                   /\ deployments[upd[u].deploymentID].ident = upd[u].input.ident]_vars

\* The update's status landed on the first record although a second record of
\* the same identity, created after the lookup, existed when it was applied.
C29_Witness ==
    \E u \in Updates :
        /\ updSent[u] # <<>>
        /\ updSent[u][1].DeploymentID = 1
        /\ deployments[1].state = upd[u].input.state
        /\ Len(deployments) = 2
        /\ deployments[2].ident = upd[u].input.ident
        /\ deployments[2].state = "none"

\* The records that exist, without their status.
Records(deps) == [d \in DOMAIN deps |-> <<deps[d].ident, deps[d].by>>]

\* C30 UpdateDeploymentWorkflow is stateless and only updates: no step of an
\* execution creates, removes or re-labels a deployment record, and every status
\* call of an execution uses the id that a successful lookup of that same
\* execution returned for its own identity.
C30_UpdateOnly ==
    [][/\ wf' = wf => Records(deployments') = Records(deployments)
       /\ \A u \in Updates :
             \A i \in DOMAIN updCalls'[u] :
                 updCalls'[u][i].activity = "status"
                     => /\ i = 2
                        /\ updCalls'[u][1].activity = "find"
                        /\ updCalls'[u][1].ok
                        /\ updCalls'[u][1].id = updCalls'[u][i].id
                        /\ deployments'[updCalls'[u][i].id].ident
                              = upd'[u].input.ident]_vars

\* Two executions for different identities completed, each on the record its
\* own lookup found, and the records are the two the lifecycle runs created.
C30_Witness ==
    /\ Len(deployments) = NumRedeploys
    /\ \A u \in Updates : upd[u].pc = "done"
    /\ \E u1 \in Updates, u2 \in Updates :
          /\ upd[u1].input.ident # upd[u2].input.ident
          /\ upd[u1].result.DeploymentID # upd[u2].result.DeploymentID

C32_RequestFlags ==
    deploymentRequest.built =>
        /\ deploymentRequest.ProductionEnvironment
              <=> createInput.Environment = "production"
        /\ deploymentRequest.TransientEnvironment = createInput.IsTransient

\* A request was built for the environment "Production" of a transient run: it
\* is not a production deployment and it is transient.
C32_Witness ==
    /\ deploymentRequest.built
    /\ createInput.Environment = "Production"
    /\ createInput.IsTransient
    /\ ~deploymentRequest.ProductionEnvironment
    /\ deploymentRequest.TransientEnvironment

\* C33 Payload merge, as claimed: the payload of a create call always has the
\* keys triggered_by and created_at, has harness_execution_id and
\* harness_pipeline_id exactly when the input of that name is not empty, has
\* every key of the caller's payload, and triggered_by and created_at hold the
\* system's values whatever the caller's payload holds.
C33_PayloadMerge ==
    deploymentRequest.built =>
        LET payload == deploymentRequest.Payload
        IN  /\ {"triggered_by", "created_at"} \subseteq DOMAIN payload
            /\ "harness_execution_id" \in DOMAIN payload
                  <=> createInput.HarnessExecutionID # ""
            /\ "harness_pipeline_id" \in DOMAIN payload
                  <=> createInput.HarnessPipelineID # ""
            /\ DOMAIN createInput.Payload \subseteq DOMAIN payload
            /\ payload["triggered_by"] = "temporal-workflow"
            /\ payload["created_at"] = Now

\* The value a key of the payload has before the caller's payload is copied.
SystemValue(input, key) ==
    CASE key = "triggered_by" -> "temporal-workflow"
      [] key = "created_at" -> Now
      [] key = "harness_execution_id" -> input.HarnessExecutionID
      [] key = "harness_pipeline_id" -> input.HarnessPipelineID
      [] OTHER -> ""

\* C33 amended: the payload always has the keys triggered_by and created_at,
\* has harness_execution_id and harness_pipeline_id exactly when the input of
\* that name is not empty or the caller's payload has that key, and has every
\* key of the caller's payload with the caller's value; the system's fields
\* hold the system's values unless the caller's payload has the same key.
C33_CallerValueWins ==
    deploymentRequest.built =>
        LET payload == deploymentRequest.Payload
            caller == createInput.Payload
        IN  /\ {"triggered_by", "created_at"} \subseteq DOMAIN payload
            /\ "harness_execution_id" \in DOMAIN payload
                  <=> (createInput.HarnessExecutionID # ""
                         \/ "harness_execution_id" \in DOMAIN caller)
            /\ "harness_pipeline_id" \in DOMAIN payload
                  <=> (createInput.HarnessPipelineID # ""
                         \/ "harness_pipeline_id" \in DOMAIN caller)
            /\ \A key \in DOMAIN caller :
                  key \in DOMAIN payload /\ payload[key] = caller[key]
            /\ \A key \in DOMAIN payload \ DOMAIN caller :
                  payload[key] = SystemValue(createInput, key)

\* The caller's payload has the key triggered_by, and the request's payload
\* holds the caller's value for it beside the system's created_at.
C33_Witness ==
    /\ deploymentRequest.built
    /\ "triggered_by" \in DOMAIN createInput.Payload
    /\ deploymentRequest.Payload["triggered_by"] = "caller"
    /\ deploymentRequest.Payload["created_at"] = Now

\* C34 Installation cache lifecycle, as claimed: the entry of an organization
\* is written only by a call that listed the installations and found one for
\* that organization; an entry that is present is never changed or removed; a
\* call that began when the entry was present lists nothing and uses the cached
\* id; a lookup that fails or finds no installation returns an error and leaves
\* the cache as it was.
C34_CacheLifecycle ==
    [][/\ \A org \in DOMAIN installationCache :
             /\ org \in DOMAIN installationCache'
             /\ installationCache'[org] = installationCache[org]
       /\ \A org \in DOMAIN installationCache' \ DOMAIN installationCache :
             /\ installationCache'[org] = FindInstallation(Installations, org)
             /\ installationCache'[org] # 0
             /\ \E g \in Goroutines :
                   /\ Writing(g)
                   /\ clientCalls[g].org = org
                   /\ clientCalls[g].listed
                   /\ clientCalls'[g].pc = "returned"
       /\ \A g \in Goroutines :
             /\ clientCalls'[g].present
                   => /\ ~clientCalls'[g].listed
                      /\ clientCalls'[g].pc \notin {"list", "store", "writing"}
                      /\ clientCalls'[g].ret = "client"
                            => clientCalls'[g].id
                                 = installationCache[clientCalls'[g].org]
             /\ (clientCalls[g].pc = "list" /\ clientCalls'[g].pc = "returned")
                   => /\ clientCalls'[g].ret = "error"
                      /\ installationCache' = installationCache]_vars

\* C35 Mutual exclusion, as claimed: no read or write of installationCache by
\* one activity is in progress while another activity writes it.
C35_MutualExclusion ==
    \A g \in Goroutines, h \in Goroutines :
        g # h => ~(Writing(g) /\ (Reading(h) \/ Writing(h)))
====
